---- MODULE Spec2Model ----
(***************************************************************************)
(* A model of SocialGraph (SocialGraph.h / SocialGraph.cpp): the Person    *)
(* list `nodes`, the Friendship list `edgeList`, the mutators, the text    *)
(* loader, the two breadth-first searches and the recommendation ranker.   *)
(*                                                                         *)
(* A name (std::string) is a sequence of one-character strings, so that    *)
(* the loader's find / substr / erase / operator>> act on characters.      *)
(* Indices into `nodes` are the code's 0-based ints; -1 is "not found".    *)
(***************************************************************************)
EXTENDS Integers, Sequences, FiniteSets, TLC

VARIABLES
    nodes,      \* SocialGraph::nodes: the Persons, in insertion order
    edgeList,   \* SocialGraph::edgeList: the Friendships, in insertion order
    call,       \* the last call made on the graph, with its arguments
    ret,        \* what that call returned
    pushed,     \* the indices the last search pushed on its queue, in order
    oob,        \* whether the last search indexed a vector with -1
    frame       \* the locals of a call that is taken one loop pass at a time

vars == <<nodes, edgeList, call, ret, pushed, oob, frame>>

(***************************************************************************)
(* Bounds of the model.                                                    *)
(***************************************************************************)
\* most Persons the store model lets addPerson grow the Person list to
MaxNodes == 3
\* most Friendships the store model lets addFriend grow the edge list to
MaxEdges == 3

\* the names the callers pass
NmA == <<"A">>
NmB == <<"B">>
NmC == <<"C">>
NmD == <<"D">>
NmE == <<"E">>
StoreNames == {NmA, NmB, NmC}

(***************************************************************************)
(* Integer conversions.  int is 32 bits and size_t is wider; SizeMax       *)
(* stands for the largest size_t (std::string::npos), which is 2^64 - 1    *)
(* in a 64-bit build: TLC's integers end at 2^31 - 1, and every size the   *)
(* model compares SizeMax with is far below it.                            *)
(***************************************************************************)
INT_MAX == 2147483647
SizeMax == 2147483647
Npos == SizeMax

\* int -> size_t: a negative int wraps to the top of the size_t range
ToSizeT(i) == IF i < 0 THEN (SizeMax + i) + 1 ELSE i
\* size_t -> int: the top of the size_t range wraps to a negative int
ToInt(u) == IF u > SizeMax \div 2 THEN (u - SizeMax) - 1 ELSE u
\* u + 1 in size_t arithmetic
SizeInc(u) == IF u = SizeMax THEN 0 ELSE u + 1

Min(a, b) == IF a < b THEN a ELSE b

(***************************************************************************)
(* Entity model.                                                           *)
(***************************************************************************)
Edge(n1, n2) == [firstNode |-> n1, secondNode |-> n2]

connects(edge, a, b) ==
    \/ (edge.firstNode = a /\ edge.secondNode = b)
    \/ (edge.firstNode = b /\ edge.secondNode = a)

Graph(ns, el) == [nodes |-> ns, edgeList |-> el]
EmptyGraph == Graph(<<>>, <<>>)

nodeExists(g, node) == \E i \in 1..Len(g.nodes) : g.nodes[i] = node

(***************************************************************************)
(* Mutators, as functions from a graph to a graph.                         *)
(***************************************************************************)
\* addPerson without the nodeExists test
addPersonUnchecked(g, name) == Graph(Append(g.nodes, name), g.edgeList)

addPerson(g, name) ==
    IF ~nodeExists(g, name)
    THEN Graph(Append(g.nodes, name), g.edgeList)
    ELSE g

\* removePerson without the erase of the Person's Friendships
removePersonKeepEdges(g, name) ==
    IF ~nodeExists(g, name)
    THEN [g |-> g, result |-> FALSE]
    ELSE [g |-> Graph(SelectSeq(g.nodes, LAMBDA n : n # name), g.edgeList),
          result |-> TRUE]

\* removePerson whose erase tests the first end of a Friendship only
removePersonFirstEndOnly(g, name) ==
    IF ~nodeExists(g, name)
    THEN [g |-> g, result |-> FALSE]
    ELSE [g |-> Graph(SelectSeq(g.nodes, LAMBDA n : n # name),
                      SelectSeq(g.edgeList, LAMBDA e : ~(e.firstNode = name))),
          result |-> TRUE]

\* removePerson that fills the Person's place with the last Person
removePersonSwapLast(g, name) ==
    IF ~nodeExists(g, name)
    THEN [g |-> g, result |-> FALSE]
    ELSE LET n == Len(g.nodes)
             at == CHOOSE i \in 1..n : g.nodes[i] = name
         IN [g |-> Graph([i \in 1..(n - 1) |-> IF i = at THEN g.nodes[n] ELSE g.nodes[i]],
                         SelectSeq(g.edgeList,
                                   LAMBDA e : ~(e.firstNode = name \/ e.secondNode = name))),
             result |-> TRUE]

removePerson(g, name) ==
    IF ~nodeExists(g, name)
    THEN [g |-> g, result |-> FALSE]
    ELSE [g |-> Graph(SelectSeq(g.nodes, LAMBDA n : n # name),
                      SelectSeq(g.edgeList,
                                LAMBDA e : ~(e.firstNode = name \/ e.secondNode = name))),
          result |-> TRUE]

\* addFriend that looks for the Friendship in the order given only
addFriendSameOrderOnly(g, name1, name2) ==
    IF nodeExists(g, name1) /\ nodeExists(g, name2) /\ name1 # name2
    THEN LET alreadyFriends ==
                 \E i \in 1..Len(g.edgeList) :
                     /\ g.edgeList[i].firstNode = name1
                     /\ g.edgeList[i].secondNode = name2
         IN IF ~alreadyFriends
            THEN Graph(g.nodes, Append(g.edgeList, Edge(name1, name2)))
            ELSE g
    ELSE g

\* addFriend without the name1 != name2 test
addFriendSelfAllowed(g, name1, name2) ==
    IF nodeExists(g, name1) /\ nodeExists(g, name2)
    THEN LET alreadyFriends ==
                 \E i \in 1..Len(g.edgeList) : connects(g.edgeList[i], name1, name2)
         IN IF ~alreadyFriends
            THEN Graph(g.nodes, Append(g.edgeList, Edge(name1, name2)))
            ELSE g
    ELSE g

addFriend(g, name1, name2) ==
    IF nodeExists(g, name1) /\ nodeExists(g, name2) /\ name1 # name2
    THEN LET alreadyFriends ==
                 \E i \in 1..Len(g.edgeList) : connects(g.edgeList[i], name1, name2)
         IN IF ~alreadyFriends
            THEN Graph(g.nodes, Append(g.edgeList, Edge(name1, name2)))
            ELSE g
    ELSE g

\* removeFriend that erases the Friendships listed as (name1, name2) only
removeFriendSameOrderOnly(g, name1, name2) ==
    Graph(g.nodes,
          SelectSeq(g.edgeList,
                    LAMBDA e : ~(e.firstNode = name1 /\ e.secondNode = name2)))

removeFriend(g, name1, name2) ==
    Graph(g.nodes, SelectSeq(g.edgeList, LAMBDA e : ~connects(e, name1, name2)))

(***************************************************************************)
(* Read-only helpers.                                                      *)
(***************************************************************************)
RECURSIVE FriendsIn(_, _)
FriendsIn(el, node) ==
    IF el = <<>> THEN <<>>
    ELSE (IF Head(el).firstNode = node THEN <<Head(el).secondNode>>
          ELSE IF Head(el).secondNode = node THEN <<Head(el).firstNode>>
          ELSE <<>>) \o FriendsIn(Tail(el), node)

\* getFriends that walks the Person list instead of the edge list
getFriendsInPersonOrder(g, node) ==
    SelectSeq(g.nodes,
              LAMBDA w : \E i \in 1..Len(g.edgeList) : connects(g.edgeList[i], node, w))

\* getFriends without the else-branch for the second end of a Friendship
getFriendsOfFirstEnd(g, node) ==
    LET mine == SelectSeq(g.edgeList, LAMBDA e : e.firstNode = node)
    IN [i \in 1..Len(mine) |-> mine[i].secondNode]

getFriends(g, node) == FriendsIn(g.edgeList, node)

\* areConnected that compares the names with the ends in the order given only
areConnectedSameOrderOnly(g, name1, name2) ==
    \E i \in 1..Len(g.edgeList) :
        g.edgeList[i].firstNode = name1 /\ g.edgeList[i].secondNode = name2

areConnected(g, name1, name2) ==
    \E i \in 1..Len(g.edgeList) : connects(g.edgeList[i], name1, name2)

(***************************************************************************)
(* Path search.  A search returns the path and, for inspection, the        *)
(* indices it pushed on the queue (in order) and whether it indexed the    *)
(* parent / distance / visited vectors with -1.                            *)
(***************************************************************************)
\* the scan `for (j...) if (nodes[j] == n) { index = j; break; }`: -1 when absent
RECURSIVE ScanIndex(_, _, _)
ScanIndex(ns, n, j) ==
    IF j >= Len(ns) THEN -1
    ELSE IF ns[j + 1] = n THEN j
    ELSE ScanIndex(ns, n, j + 1)

IndexOf(g, n) == ScanIndex(g.nodes, n, 0)

\* the scan that finds start_index and end_index together
RECURSIVE ScanEnds(_, _, _, _, _, _)
ScanEnds(ns, start, end, i, start_index, end_index) ==
    IF i >= Len(ns) THEN <<start_index, end_index>>
    ELSE LET s == IF ns[i + 1] = start THEN i ELSE start_index
             e == IF ns[i + 1] = end THEN i ELSE end_index
         IN IF s # -1 /\ e # -1 THEN <<s, e>>
            ELSE ScanEnds(ns, start, end, i + 1, s, e)

RECURSIVE IndexPath(_, _)
IndexPath(parent, v) ==
    IF v = -1 THEN <<>> ELSE <<v>> \o IndexPath(parent, parent[v])

Reverse(s) == [i \in 1..Len(s) |-> s[Len(s) + 1 - i]]

\* ReconstructPath without the reverse of index_path
ReconstructPathUnreversed(g, st, end_index) ==
    IF st.found
    THEN LET index_path == IndexPath(st.parent, end_index)
         IN [i \in 1..Len(index_path) |-> g.nodes[index_path[i] + 1]]
    ELSE <<>>

\* `if (found) { ... }`: the names along the parent chain from end_index, reversed
ReconstructPath(g, st, end_index) ==
    IF st.found
    THEN LET index_path == Reverse(IndexPath(st.parent, end_index))
         IN [i \in 1..Len(index_path) |-> g.nodes[index_path[i] + 1]]
    ELSE <<>>

NoSearch == [path |-> <<>>, pushed |-> <<>>, oob |-> FALSE]

\* RelaxNeighbors that records `current` as the parent of every neighbour,
\* reached before or not
RECURSIVE RelaxNeighborsParentAlways(_, _, _, _)
RelaxNeighborsParentAlways(g, st, current, neighbors) ==
    IF neighbors = <<>> THEN st
    ELSE LET neighbor_index == IndexOf(g, Head(neighbors))
             st2 == IF neighbor_index = -1
                    THEN [st EXCEPT !.oob = TRUE]
                    ELSE IF st.distance[neighbor_index] = INT_MAX
                    THEN [st EXCEPT !.distance[neighbor_index] = st.distance[current] + 1,
                                    !.parent[neighbor_index] = current,
                                    !.q = Append(st.q, neighbor_index),
                                    !.pushed = Append(st.pushed, neighbor_index)]
                    ELSE [st EXCEPT !.parent[neighbor_index] = current]
         IN RelaxNeighborsParentAlways(g, st2, current, Tail(neighbors))

\* the inner `for` of shortestPath over the neighbours of `current`
RECURSIVE RelaxNeighbors(_, _, _, _)
RelaxNeighbors(g, st, current, neighbors) ==
    IF neighbors = <<>> THEN st
    ELSE LET neighbor_index == IndexOf(g, Head(neighbors))
             st2 == IF neighbor_index = -1
                    THEN [st EXCEPT !.oob = TRUE]
                    ELSE IF st.distance[neighbor_index] = INT_MAX
                    THEN [st EXCEPT !.distance[neighbor_index] = st.distance[current] + 1,
                                    !.parent[neighbor_index] = current,
                                    !.q = Append(st.q, neighbor_index),
                                    !.pushed = Append(st.pushed, neighbor_index)]
                    ELSE st
         IN RelaxNeighbors(g, st2, current, Tail(neighbors))

\* the `while (!q.empty() && !found)` loop of shortestPath
RECURSIVE SearchLoop(_, _, _)
SearchLoop(g, st, end_index) ==
    IF st.q = <<>> \/ st.found THEN st
    ELSE LET current == Head(st.q)
             popped == [st EXCEPT !.q = Tail(st.q)]
         IN IF current = end_index
            THEN [popped EXCEPT !.found = TRUE]
            ELSE SearchLoop(g,
                            RelaxNeighbors(g, popped, current,
                                           getFriends(g, g.nodes[current + 1])),
                            end_index)

shortestPath(g, from, to) ==
    IF ~nodeExists(g, from) \/ ~nodeExists(g, to) THEN NoSearch
    ELSE LET ends == ScanEnds(g.nodes, from, to, 0, -1, -1)
             start_index == ends[1]
             end_index == ends[2]
             idx == 0..(Len(g.nodes) - 1)
             st0 == [parent |-> [i \in idx |-> -1],
                     distance |-> [i \in idx |-> IF i = start_index THEN 0 ELSE INT_MAX],
                     q |-> <<start_index>>,
                     pushed |-> <<start_index>>,
                     found |-> FALSE,
                     oob |-> FALSE]
             st == SearchLoop(g, st0, end_index)
         IN [path |-> ReconstructPath(g, st, end_index),
             pushed |-> st.pushed,
             oob |-> st.oob]

\* BlacklistIndices that takes a name it does not find for the first Person
RECURSIVE BlacklistIndicesUnknownAsFirst(_, _)
BlacklistIndicesUnknownAsFirst(g, blacklist) ==
    IF blacklist = <<>> THEN <<>>
    ELSE (IF IndexOf(g, Head(blacklist)) # -1
          THEN <<IndexOf(g, Head(blacklist))>>
          ELSE <<0>>) \o BlacklistIndicesUnknownAsFirst(g, Tail(blacklist))

\* `blacklistIndices`: one index per blacklist entry that names a Person
RECURSIVE BlacklistIndices(_, _)
BlacklistIndices(g, blacklist) ==
    IF blacklist = <<>> THEN <<>>
    ELSE (IF IndexOf(g, Head(blacklist)) # -1
          THEN <<IndexOf(g, Head(blacklist))>>
          ELSE <<>>) \o BlacklistIndices(g, Tail(blacklist))

\* VisitNeighbors without the blacklist test
RECURSIVE VisitNeighborsUnfiltered(_, _, _, _, _)
VisitNeighborsUnfiltered(g, st, current, neighbors, blacklistIndices) ==
    IF neighbors = <<>> THEN st
    ELSE LET neighbor_index == IndexOf(g, Head(neighbors))
             st2 == IF neighbor_index = -1
                    THEN [st EXCEPT !.oob = TRUE]
                    ELSE IF ~st.visited[neighbor_index]
                    THEN [st EXCEPT !.visited[neighbor_index] = TRUE,
                                    !.parent[neighbor_index] = current,
                                    !.q = Append(st.q, neighbor_index),
                                    !.pushed = Append(st.pushed, neighbor_index)]
                    ELSE st
         IN VisitNeighborsUnfiltered(g, st2, current, Tail(neighbors), blacklistIndices)

\* the inner `for` of shortestPathAvoiding over the neighbours of `current`
RECURSIVE VisitNeighbors(_, _, _, _, _)
VisitNeighbors(g, st, current, neighbors, blacklistIndices) ==
    IF neighbors = <<>> THEN st
    ELSE LET neighbor_index == IndexOf(g, Head(neighbors))
             isBlacklisted ==
                 \E b \in 1..Len(blacklistIndices) : blacklistIndices[b] = neighbor_index
             st2 == IF ~isBlacklisted /\ neighbor_index = -1
                    THEN [st EXCEPT !.oob = TRUE]
                    ELSE IF ~isBlacklisted /\ ~st.visited[neighbor_index]
                    THEN [st EXCEPT !.visited[neighbor_index] = TRUE,
                                    !.parent[neighbor_index] = current,
                                    !.q = Append(st.q, neighbor_index),
                                    !.pushed = Append(st.pushed, neighbor_index)]
                    ELSE st
         IN VisitNeighbors(g, st2, current, Tail(neighbors), blacklistIndices)

\* the `while (!q.empty() && !found)` loop of shortestPathAvoiding
RECURSIVE AvoidingLoop(_, _, _, _)
AvoidingLoop(g, st, end_index, blacklistIndices) ==
    IF st.q = <<>> \/ st.found THEN st
    ELSE LET current == Head(st.q)
             popped == [st EXCEPT !.q = Tail(st.q)]
         IN IF current = end_index
            THEN [popped EXCEPT !.found = TRUE]
            ELSE AvoidingLoop(g,
                              VisitNeighbors(g, popped, current,
                                             getFriends(g, g.nodes[current + 1]),
                                             blacklistIndices),
                              end_index, blacklistIndices)

shortestPathAvoiding(g, from, to, blacklist) ==
    IF ~nodeExists(g, from) \/ ~nodeExists(g, to) THEN NoSearch
    ELSE LET ends == ScanEnds(g.nodes, from, to, 0, -1, -1)
             start_index == ends[1]
             end_index == ends[2]
             blacklistIndices == BlacklistIndices(g, blacklist)
             idx == 0..(Len(g.nodes) - 1)
             st0 == [parent |-> [i \in idx |-> -1],
                     visited |-> [i \in idx |-> i = start_index],
                     q |-> <<start_index>>,
                     pushed |-> <<start_index>>,
                     found |-> FALSE,
                     oob |-> FALSE]
             st == AvoidingLoop(g, st0, end_index, blacklistIndices)
         IN [path |-> ReconstructPath(g, st, end_index),
             pushed |-> st.pushed,
             oob |-> st.oob]

(***************************************************************************)
(* Recommendation ranker.                                                  *)
(***************************************************************************)
countMutualFriends(g, a, b) ==
    LET aFriends == getFriends(g, a)
        bFriends == getFriends(g, b)
    IN Cardinality({i \in 1..Len(aFriends) :
                       \E j \in 1..Len(bFriends) : aFriends[i] = bFriends[j]})

\* the loop over `nodes` that fills potentialFriends, from position i on
RECURSIVE PotentialFriends(_, _, _, _)
PotentialFriends(g, source, currentFriends, i) ==
    IF i > Len(g.nodes) THEN <<>>
    ELSE LET node == g.nodes[i]
             isAlreadyFriend ==
                 \E f \in 1..Len(currentFriends) : currentFriends[f] = node
             mutualCount == countMutualFriends(g, source, node)
         IN (IF node # source /\ ~isAlreadyFriend /\ mutualCount > 0
             THEN <<[first |-> node, second |-> mutualCount]>>
             ELSE <<>>) \o PotentialFriends(g, source, currentFriends, i + 1)

\* the comparator with the comparison turned round
SortCompAscending(a, b) == a.second < b.second

\* the comparator handed to std::sort
SortComp(a, b) == a.second > b.second

\* std::sort(first, last, comp) orders the range by comp and leaves the order
\* of equivalent elements unspecified: every arrangement sorted by comp is a
\* result the library may produce
SortOutcomes(s) ==
    {p \in {[i \in 1..Len(s) |-> s[f[i]]] : f \in Permutations(1..Len(s))} :
        \A i, j \in 1..Len(s) : i < j => ~SortComp(p[j], p[i])}

\* `int limit = (k < potentialFriends.size()) ? k : potentialFriends.size();`
\* k is converted to size_t for the comparison and the choice
RecommendLimit(k, size) ==
    ToInt(IF ToSizeT(k) < size THEN ToSizeT(k) ELSE size)

\* the results recommendFriends may return
recommendFriends(g, name, k) ==
    IF ~nodeExists(g, name) THEN {<<>>}
    ELSE LET currentFriends == getFriends(g, name)
             potentialFriends == PotentialFriends(g, name, currentFriends, 1)
             limit == RecommendLimit(k, Len(potentialFriends))
         IN {[i \in 1..limit |-> sorted[i].first] : sorted \in SortOutcomes(potentialFriends)}

(***************************************************************************)
(* The loader's string operations (std::string, std::istringstream).       *)
(***************************************************************************)
\* the characters the loader trims from the source name: " \t"
TrimChars == {" ", "\t"}
\* the characters operator>> treats as separators
SpaceChars == {" ", "\t", "\n", "\r"}

\* s.find(c): the 0-based position of the first c, or npos
find(s, c) ==
    IF \E i \in 1..Len(s) : s[i] = c
    THEN (CHOOSE i \in 1..Len(s) : s[i] = c /\ \A j \in 1..(i - 1) : s[j] # c) - 1
    ELSE Npos

find_first_not_of(s, cs) ==
    IF \E i \in 1..Len(s) : s[i] \notin cs
    THEN (CHOOSE i \in 1..Len(s) : s[i] \notin cs /\ \A j \in 1..(i - 1) : s[j] \in cs) - 1
    ELSE Npos

find_last_not_of(s, cs) ==
    IF \E i \in 1..Len(s) : s[i] \notin cs
    THEN (CHOOSE i \in 1..Len(s) : s[i] \notin cs /\ \A j \in (i + 1)..Len(s) : s[j] \in cs) - 1
    ELSE Npos

\* s.substr(pos, count), for pos <= size
substr(s, pos, count) ==
    LET rcount == Min(count, Len(s) - pos)
    IN SubSeq(s, pos + 1, pos + rcount)

\* s.erase(index, count), for index <= size
erase(s, index, count) ==
    LET rcount == Min(count, Len(s) - index)
    IN SubSeq(s, 1, index) \o SubSeq(s, index + rcount + 1, Len(s))

\* the tokens `while (iss >> neighbor)` reads from s
RECURSIVE Tokens(_, _)
Tokens(s, cur) ==
    IF s = <<>> THEN (IF cur = <<>> THEN <<>> ELSE <<cur>>)
    ELSE IF Head(s) \in SpaceChars
         THEN (IF cur = <<>> THEN <<>> ELSE <<cur>>) \o Tokens(Tail(s), <<>>)
         ELSE Tokens(Tail(s), Append(cur, Head(s)))

RECURSIVE AddNeighbors(_, _, _)
AddNeighbors(g, sourceName, toks) ==
    IF toks = <<>> THEN g
    ELSE AddNeighbors(addFriend(addPerson(g, Head(toks)), sourceName, Head(toks)),
                      sourceName, Tail(toks))

\* the body of the getline loop, for one line
LoadLine(g, line) ==
    IF line = <<>> THEN g
    ELSE LET colonPos == ToInt(find(line, ":"))
             raw == substr(line, 0, ToSizeT(colonPos))
             lead == erase(raw, 0, find_first_not_of(raw, TrimChars))
             sourceName ==
                 erase(lead, SizeInc(find_last_not_of(lead, TrimChars)), Npos)
         IN AddNeighbors(addPerson(g, sourceName), sourceName,
                         Tokens(substr(line, ToSizeT(colonPos + 1), Npos), <<>>))

RECURSIVE LoadLines(_, _)
LoadLines(g, lines) ==
    IF lines = <<>> THEN g
    ELSE LoadLines(LoadLine(g, Head(lines)), Tail(lines))

\* a file: whether ifstream can open it, and its lines as getline yields them
File(lines) == [readable |-> TRUE, lines |-> lines]
NoFile == [readable |-> FALSE, lines |-> <<>>]

\* loadFromFile without the two clear() calls
loadFromFileNoClear(g, file) ==
    IF ~file.readable
    THEN [g |-> g, result |-> FALSE]
    ELSE [g |-> LoadLines(g, file.lines), result |-> TRUE]

loadFromFile(g, file) ==
    IF ~file.readable
    THEN [g |-> g, result |-> FALSE]
    ELSE [g |-> LoadLines(EmptyGraph, file.lines), result |-> TRUE]

\* the friends' names as saveToFile writes them: one space between two
RECURSIVE JoinNames(_)
JoinNames(friends) ==
    IF friends = <<>> THEN <<>>
    ELSE IF Len(friends) = 1 THEN Head(friends)
    ELSE Head(friends) \o <<" ">> \o JoinNames(Tail(friends))

\* the lines saveToFile writes, one `<name>: <friends>` per Person
SavedLines(g) ==
    [i \in 1..Len(g.nodes) |->
        g.nodes[i] \o <<":", " ">> \o JoinNames(getFriends(g, g.nodes[i]))]

\* writable: whether ofstream can open the file
saveToFile(g, writable) ==
    IF ~writable
    THEN [file |-> NoFile, result |-> FALSE]
    ELSE [file |-> File(SavedLines(g)), result |-> TRUE]

(***************************************************************************)
(* The store as a state machine.                                           *)
(***************************************************************************)
G == Graph(nodes, edgeList)

NoCall == [op |-> "none"]
\* no call is in progress
NoFrame == [pc |-> "none"]
Void == "void"

Init ==
    /\ nodes = <<>>
    /\ edgeList = <<>>
    /\ call = NoCall
    /\ ret = Void
    /\ pushed = <<>>
    /\ oob = FALSE
    /\ frame = NoFrame

Become(g) ==
    /\ nodes' = g.nodes
    /\ edgeList' = g.edgeList

AddPerson(name) ==
    /\ nodeExists(G, name) \/ Len(nodes) < MaxNodes
    /\ Become(addPerson(G, name))
    /\ call' = [op |-> "addPerson", name |-> name]
    /\ ret' = Void
    /\ pushed' = <<>>
    /\ oob' = FALSE
    /\ frame' = frame

RemovePerson(name) ==
    LET r == removePerson(G, name)
    IN /\ Become(r.g)
       /\ call' = [op |-> "removePerson", name |-> name]
       /\ ret' = r.result
       /\ pushed' = <<>>
       /\ oob' = FALSE
       /\ frame' = frame

AddFriend(name1, name2) ==
    /\ areConnected(G, name1, name2) \/ Len(edgeList) < MaxEdges
    /\ Become(addFriend(G, name1, name2))
    /\ call' = [op |-> "addFriend", name1 |-> name1, name2 |-> name2]
    /\ ret' = Void
    /\ pushed' = <<>>
    /\ oob' = FALSE
    /\ frame' = frame

RemoveFriend(name1, name2) ==
    /\ Become(removeFriend(G, name1, name2))
    /\ call' = [op |-> "removeFriend", name1 |-> name1, name2 |-> name2]
    /\ ret' = Void
    /\ pushed' = <<>>
    /\ oob' = FALSE
    /\ frame' = frame

LoadFromFile(file) ==
    LET r == loadFromFile(G, file)
    IN /\ Become(r.g)
       /\ call' = [op |-> "loadFromFile", file |-> file]
       /\ ret' = r.result
       /\ pushed' = <<>>
       /\ oob' = FALSE
       /\ frame' = frame

\* the files the model loads: unreadable, empty, and texts in and out of
\* the "<name>: <friend> ... <friend>" format, a line being its characters
Files ==
    {NoFile,
     File(<<>>),
     \* "A: B C"
     File(<<<<"A", ":", " ", "B", " ", "C">>>>),
     \* "A: B" / "B: A C" / "" / "C: "
     File(<<<<"A", ":", " ", "B">>, <<"B", ":", " ", "A", " ", "C">>, <<>>,
            <<"C", ":", " ">>>>),
     \* " A\t:B" (blanks and a tab round the source name)
     File(<<<<" ", "A", "\t", ":", "B">>>>),
     \* "A B" (no colon)
     File(<<<<"A", " ", "B">>>>),
     \* "A: A B A" (the source and a friend repeated among the friends)
     File(<<<<"A", ":", " ", "A", " ", "B", " ", "A">>>>),
     \* ":B" (nothing before the colon)
     File(<<<<":", "B">>>>),
     \* "A:B:" (a second colon)
     File(<<<<"A", ":", "B", ":">>>>),
     \* "  " (blanks only)
     File(<<<<" ", " ">>>>)}

Next ==
    \/ \E name \in StoreNames : AddPerson(name)
    \/ \E name \in StoreNames : RemovePerson(name)
    \/ \E name1, name2 \in StoreNames : AddFriend(name1, name2)
    \/ \E name1, name2 \in StoreNames : RemoveFriend(name1, name2)
    \/ \E file \in Files : LoadFromFile(file)

Spec == Init /\ [][Next]_vars

(***************************************************************************)
(* The searches on a given graph.  The graph is drawn from the graphs the  *)
(* mutators build on SearchNodes, with the friendships added in every      *)
(* order, each pair passed to addFriend as (earlier, later) Person.  A     *)
(* search leaves the graph as it is, so the calls that may follow one      *)
(* search are the calls that may be made instead of it: each behaviour     *)
(* makes one call.                                                         *)
(***************************************************************************)
\* most Friendships of a graph the searches run on
SearchEdges == 4
\* longest exclusion list passed to shortestPathAvoiding
MaxBlacklist == 1

SearchNodes == <<NmA, NmB, NmC, NmD>>
SearchNames == {NmA, NmB, NmC, NmD}

Prefixes(s) == {SubSeq(s, 1, n) : n \in 0..Len(s)}

\* the unordered pairs of positions of a Person list
PositionPairs(ns) == {pr \in (1..Len(ns)) \X (1..Len(ns)) : pr[1] < pr[2]}

\* the edge lists of at most maxEdges Friendships over ns, in every order
OrderedEdgeLists(ns, maxEdges) ==
    LET pairs == PositionPairs(ns)
        orders == UNION {{f \in [1..m -> pairs] :
                            \A i, j \in 1..m : i # j => f[i] # f[j]} :
                         m \in 0..Min(maxEdges, Cardinality(pairs))}
    IN {[i \in 1..Len(f) |-> Edge(ns[f[i][1]], ns[f[i][2]])] : f \in orders}

SearchGraphs ==
    UNION {{Graph(ns, el) : el \in OrderedEdgeLists(ns, SearchEdges)} :
           ns \in Prefixes(SearchNodes)}

InitSearch ==
    /\ \E g \in SearchGraphs : nodes = g.nodes /\ edgeList = g.edgeList
    /\ call = NoCall
    /\ ret = Void
    /\ pushed = <<>>
    /\ oob = FALSE
    /\ frame = NoFrame

ShortestPath(from, to) ==
    LET r == shortestPath(G, from, to)
    IN /\ call = NoCall
       /\ call' = [op |-> "shortestPath", from |-> from, to |-> to]
       /\ ret' = r.path
       /\ pushed' = r.pushed
       /\ oob' = r.oob
       /\ frame' = frame
       /\ UNCHANGED <<nodes, edgeList>>

ShortestPathAvoiding(from, to, blacklist) ==
    LET r == shortestPathAvoiding(G, from, to, blacklist)
    IN /\ call = NoCall
       /\ call' = [op |-> "shortestPathAvoiding", from |-> from, to |-> to,
                   blacklist |-> blacklist]
       /\ ret' = r.path
       /\ pushed' = r.pushed
       /\ oob' = r.oob
       /\ frame' = frame
       /\ UNCHANGED <<nodes, edgeList>>

\* the exclusion lists of at most MaxBlacklist names, each name once and in
\* the order of SearchNodes (lists in any order and with repeats: QueryLists)
Blacklists ==
    {s \in UNION {[1..m -> SearchNames] : m \in 0..MaxBlacklist} :
         \A i \in 1..(Len(s) - 1) :
             ScanIndex(SearchNodes, s[i], 0) < ScanIndex(SearchNodes, s[i + 1], 0)}

NextSearch ==
    \/ \E from, to \in SearchNames : ShortestPath(from, to)
    \/ \E from, to \in SearchNames : \E blacklist \in Blacklists :
           ShortestPathAvoiding(from, to, blacklist)

SpecSearch == InitSearch /\ [][NextSearch]_vars

(***************************************************************************)
(* The ranker on a given graph.  The graph is drawn from the graphs the   *)
(* mutators build on RankNodes; the ranker reads the edge list only        *)
(* through getFriends membership, so the friendships are listed in one     *)
(* order, each pair as (earlier, later) Person or, flipped, the reverse.   *)
(* The ranker leaves the graph as it is: each behaviour makes one call.    *)
(***************************************************************************)
\* most Friendships of a graph the ranker runs on
RankEdges == 5
\* largest k passed to recommendFriends; the smallest is -MaxK
MaxK == 3

RankNodes == <<NmA, NmB, NmC, NmD, NmE>>
RankNames == {NmA, NmB, NmC, NmD, NmE}

\* the position pairs in S, listed in increasing order
RECURSIVE PairList(_)
PairList(S) ==
    IF S = {} THEN <<>>
    ELSE LET least == CHOOSE x \in S :
                          \A y \in S : x[1] < y[1] \/ (x[1] = y[1] /\ x[2] <= y[2])
         IN <<least>> \o PairList(S \ {least})

ListedEdgeLists(ns, maxEdges, flip) ==
    {LET f == PairList(S)
     IN [i \in 1..Len(f) |-> IF flip THEN Edge(ns[f[i][2]], ns[f[i][1]])
                                     ELSE Edge(ns[f[i][1]], ns[f[i][2]])] :
         S \in {T \in SUBSET PositionPairs(ns) : Cardinality(T) <= maxEdges}}

RankGraphs ==
    UNION {{Graph(ns, el) : el \in ListedEdgeLists(ns, RankEdges, flip)} :
           ns \in Prefixes(RankNodes), flip \in BOOLEAN}

InitRank ==
    /\ \E g \in RankGraphs : nodes = g.nodes /\ edgeList = g.edgeList
    /\ call = NoCall
    /\ ret = Void
    /\ pushed = <<>>
    /\ oob = FALSE
    /\ frame = NoFrame

RecommendFriends(name, k) ==
    /\ call = NoCall
    /\ \E r \in recommendFriends(G, name, k) : ret' = r
    /\ call' = [op |-> "recommendFriends", name |-> name, k |-> k]
    /\ pushed' = <<>>
    /\ oob' = FALSE
    /\ frame' = frame
    /\ UNCHANGED <<nodes, edgeList>>

NextRank == \E name \in RankNames : \E k \in (-MaxK)..MaxK : RecommendFriends(name, k)

SpecRank == InitRank /\ [][NextRank]_vars

(***************************************************************************)
(* The queries on a given graph: the two searches, the ranker and the      *)
(* read-only members of the store.  The graph is drawn from the graphs on  *)
(* the first Persons of SearchNodes with the friendships listed in one     *)
(* order; the names passed are SearchNames, so a name is unknown wherever  *)
(* the graph has fewer than four Persons.  Each behaviour makes one call   *)
(* and may make it again.                                                  *)
(***************************************************************************)
\* most Friendships of a graph the queries run on
QueryEdges == 4
\* longest exclusion list the queries pass to shortestPathAvoiding
QueryList == 2

QueryGraphs ==
    UNION {{Graph(ns, el) : el \in ListedEdgeLists(ns, QueryEdges, FALSE)} :
           ns \in Prefixes(SearchNodes)}

QueryLists == UNION {[1..m -> SearchNames] : m \in 0..QueryList}

InitQuery ==
    /\ \E g \in QueryGraphs : nodes = g.nodes /\ edgeList = g.edgeList
    /\ call = NoCall
    /\ ret = Void
    /\ pushed = <<>>
    /\ oob = FALSE
    /\ frame = NoFrame

AreConnected(name1, name2) ==
    /\ call = NoCall
    /\ call' = [op |-> "areConnected", name1 |-> name1, name2 |-> name2]
    /\ ret' = areConnected(G, name1, name2)
    /\ pushed' = <<>>
    /\ oob' = FALSE
    /\ frame' = frame
    /\ UNCHANGED <<nodes, edgeList>>

GetFriends(name) ==
    /\ call = NoCall
    /\ call' = [op |-> "getFriends", name |-> name]
    /\ ret' = getFriends(G, name)
    /\ pushed' = <<>>
    /\ oob' = FALSE
    /\ frame' = frame
    /\ UNCHANGED <<nodes, edgeList>>

\* getNodes that hands the Person list over instead of a copy of it
GetNodesMovedOut ==
    /\ call = NoCall
    /\ call' = [op |-> "getNodes"]
    /\ ret' = nodes
    /\ nodes' = <<>>
    /\ pushed' = <<>>
    /\ oob' = FALSE
    /\ frame' = frame
    /\ UNCHANGED edgeList

GetNodes ==
    /\ call = NoCall
    /\ call' = [op |-> "getNodes"]
    /\ ret' = nodes
    /\ pushed' = <<>>
    /\ oob' = FALSE
    /\ frame' = frame
    /\ UNCHANGED <<nodes, edgeList>>

GetEdgeList ==
    /\ call = NoCall
    /\ call' = [op |-> "getEdgeList"]
    /\ ret' = edgeList
    /\ pushed' = <<>>
    /\ oob' = FALSE
    /\ frame' = frame
    /\ UNCHANGED <<nodes, edgeList>>

\* the call made before, made again.  The order std::sort leaves ties in is
\* computed from the vector it is given and nothing else, so recommendFriends
\* on the same graph returns, of the orders it may return, the one it returned.
Again ==
    /\ call # NoCall
    /\ LET r == CASE call.op = "shortestPath" ->
                         shortestPath(G, call.from, call.to)
                   [] call.op = "shortestPathAvoiding" ->
                         shortestPathAvoiding(G, call.from, call.to, call.blacklist)
                   [] call.op = "recommendFriends" ->
                         [path |-> CHOOSE x \in recommendFriends(G, call.name, call.k) :
                                       x = ret,
                          pushed |-> <<>>, oob |-> FALSE]
                   [] call.op = "areConnected" ->
                         [path |-> areConnected(G, call.name1, call.name2),
                          pushed |-> <<>>, oob |-> FALSE]
                   [] call.op = "getFriends" ->
                         [path |-> getFriends(G, call.name),
                          pushed |-> <<>>, oob |-> FALSE]
                   [] call.op = "getNodes" ->
                         [path |-> nodes, pushed |-> <<>>, oob |-> FALSE]
                   [] call.op = "getEdgeList" ->
                         [path |-> edgeList, pushed |-> <<>>, oob |-> FALSE]
       IN /\ ret' = r.path
          /\ pushed' = r.pushed
          /\ oob' = r.oob
          /\ frame' = frame
    /\ UNCHANGED <<call, nodes, edgeList>>

NextQuery ==
    \/ \E from, to \in SearchNames : ShortestPath(from, to)
    \/ \E from, to \in SearchNames : \E blacklist \in QueryLists :
           ShortestPathAvoiding(from, to, blacklist)
    \/ \E name \in SearchNames : \E k \in (-MaxK)..MaxK : RecommendFriends(name, k)
    \/ \E name1, name2 \in SearchNames : AreConnected(name1, name2)
    \/ \E name \in SearchNames : GetFriends(name)
    \/ GetNodes
    \/ GetEdgeList
    \/ Again

SpecQuery == InitQuery /\ [][NextQuery]_vars

(***************************************************************************)
(* The searches and the ranker taken one loop pass at a time, on a graph   *)
(* drawn as for the queries.  A behaviour starts one call; every further   *)
(* step is one pass of the loop the call is in, until the call returns.    *)
(* The code is single-threaded and synchronous: a call that has a next     *)
(* pass takes it, which is the weak fairness of the loop passes.            *)
(***************************************************************************)
\* the call returned
Returned == [pc |-> "done"]

\* shortestPath up to its `while`: the ends' indices and the vectors and the
\* queue as initialised
SearchStart(g, from, to) ==
    LET ends == ScanEnds(g.nodes, from, to, 0, -1, -1)
        start_index == ends[1]
        idx == 0..(Len(g.nodes) - 1)
    IN [pc |-> "while",
        end_index |-> ends[2],
        blacklistIndices |-> <<>>,
        current |-> -1,
        neighbors |-> <<>>,
        st |-> [parent |-> [i \in idx |-> -1],
                distance |-> [i \in idx |-> IF i = start_index THEN 0 ELSE INT_MAX],
                q |-> <<start_index>>,
                pushed |-> <<start_index>>,
                found |-> FALSE,
                oob |-> FALSE]]

\* shortestPathAvoiding up to its `while`
AvoidingStart(g, from, to, blacklist) ==
    LET ends == ScanEnds(g.nodes, from, to, 0, -1, -1)
        start_index == ends[1]
        idx == 0..(Len(g.nodes) - 1)
    IN [pc |-> "while",
        end_index |-> ends[2],
        blacklistIndices |-> BlacklistIndices(g, blacklist),
        current |-> -1,
        neighbors |-> <<>>,
        st |-> [parent |-> [i \in idx |-> -1],
                visited |-> [i \in idx |-> i = start_index],
                q |-> <<start_index>>,
                pushed |-> <<start_index>>,
                found |-> FALSE,
                oob |-> FALSE]]

\* one pass of `for (int i = 0; i < neighbors.size(); i++)` of shortestPath
SearchPass(g, st, current, neighbor) == RelaxNeighbors(g, st, current, <<neighbor>>)

\* one pass of the same loop of shortestPathAvoiding
AvoidingPass(g, st, current, neighbor, blacklistIndices) ==
    VisitNeighbors(g, st, current, <<neighbor>>, blacklistIndices)

\* one pass of the ranker's loop over `nodes`: what the Person at position i
\* adds to potentialFriends
CandidateAt(g, source, currentFriends, i) ==
    LET node == g.nodes[i]
        isAlreadyFriend == \E f \in 1..Len(currentFriends) : currentFriends[f] = node
        mutualCount == countMutualFriends(g, source, node)
    IN IF node # source /\ ~isAlreadyFriend /\ mutualCount > 0
       THEN <<[first |-> node, second |-> mutualCount]>>
       ELSE <<>>

\* before the call: nothing returned, the path and the recommendations empty
\* as the code declares them
InitSteps ==
    /\ \E g \in QueryGraphs : nodes = g.nodes /\ edgeList = g.edgeList
    /\ call = NoCall
    /\ ret = <<>>
    /\ pushed = <<>>
    /\ oob = FALSE
    /\ frame = NoFrame

StartShortestPath(from, to) ==
    /\ call = NoCall
    /\ call' = [op |-> "shortestPath", from |-> from, to |-> to]
    /\ IF ~nodeExists(G, from) \/ ~nodeExists(G, to)
       THEN /\ frame' = Returned
            /\ ret' = <<>>
            /\ pushed' = <<>>
       ELSE /\ frame' = SearchStart(G, from, to)
            /\ ret' = ret
            /\ pushed' = frame'.st.pushed
    /\ oob' = FALSE
    /\ UNCHANGED <<nodes, edgeList>>

StartShortestPathAvoiding(from, to, blacklist) ==
    /\ call = NoCall
    /\ call' = [op |-> "shortestPathAvoiding", from |-> from, to |-> to,
                blacklist |-> blacklist]
    /\ IF ~nodeExists(G, from) \/ ~nodeExists(G, to)
       THEN /\ frame' = Returned
            /\ ret' = <<>>
            /\ pushed' = <<>>
       ELSE /\ frame' = AvoidingStart(G, from, to, blacklist)
            /\ ret' = ret
            /\ pushed' = frame'.st.pushed
    /\ oob' = FALSE
    /\ UNCHANGED <<nodes, edgeList>>

\* one pass of `while (!q.empty() && !found)` up to the loop over the
\* neighbours: the test of the queue, the pop, the test for end_index and
\* the call of getFriends.  With the queue empty the call returns the empty
\* path.
WhilePass ==
    /\ frame.pc = "while"
    /\ IF frame.st.q = <<>>
       THEN /\ frame' = Returned
            /\ ret' = <<>>
       ELSE \E current \in {Head(frame.st.q)} :
                IF current = frame.end_index
                THEN /\ frame' = [pc |-> "rebuild", parent |-> frame.st.parent,
                                  v |-> frame.end_index, index_path |-> <<>>]
                     /\ ret' = ret
                ELSE \E neighbors \in {getFriends(G, nodes[current + 1])} :
                         /\ frame' = [frame EXCEPT
                                          !.pc = IF neighbors = <<>> THEN "while"
                                                                     ELSE "for",
                                          !.st.q = Tail(@),
                                          !.current = current,
                                          !.neighbors = neighbors]
                         /\ ret' = ret
    /\ UNCHANGED <<nodes, edgeList, call, pushed, oob>>

\* one pass of the loop over the neighbours of `current`; after the last
\* neighbour the `while` tests its condition again
NeighborPass ==
    /\ frame.pc = "for"
    /\ \E st \in {IF call.op = "shortestPath"
                   THEN SearchPass(G, frame.st, frame.current, Head(frame.neighbors))
                   ELSE AvoidingPass(G, frame.st, frame.current, Head(frame.neighbors),
                                     frame.blacklistIndices)} :
          /\ pushed' = st.pushed
          /\ oob' = st.oob
          /\ frame' = [frame EXCEPT
                           !.pc = IF Tail(frame.neighbors) = <<>> THEN "while"
                                                                  ELSE "for",
                           !.st = st,
                           !.neighbors = Tail(@)]
    /\ UNCHANGED <<nodes, edgeList, call, ret>>

\* one pass of `for (int v = end_index; v != -1; v = parent[v])`, and the
\* return of the reversed path when v is -1.  index_path cannot hold more
\* than every index twice without the model stopping the loop.
RebuildPass ==
    /\ frame.pc = "rebuild"
    /\ Len(frame.index_path) <= 2 * Len(nodes)
    /\ IF frame.v = -1
       THEN /\ frame' = Returned
            /\ ret' = LET index_path == Reverse(frame.index_path)
                      IN [i \in 1..Len(index_path) |-> nodes[index_path[i] + 1]]
       ELSE /\ frame' = [frame EXCEPT !.index_path = Append(@, frame.v),
                                      !.v = frame.parent[frame.v]]
            /\ ret' = ret
    /\ UNCHANGED <<nodes, edgeList, call, pushed, oob>>

StartRecommendFriends(name, k) ==
    /\ call = NoCall
    /\ call' = [op |-> "recommendFriends", name |-> name, k |-> k]
    /\ IF ~nodeExists(G, name)
       THEN /\ frame' = Returned
            /\ ret' = <<>>
       ELSE /\ frame' = [pc |-> "candidates", i |-> 1,
                         currentFriends |-> getFriends(G, name),
                         potentialFriends |-> <<>>]
            /\ ret' = ret
    /\ UNCHANGED <<nodes, edgeList, pushed, oob>>

\* one pass of `for (const Node& node : nodes)`, and past the last Person
\* the sort, the cut at `limit` and the return
CandidatePass ==
    /\ frame.pc = "candidates"
    /\ IF frame.i <= Len(nodes)
       THEN /\ frame' = [frame EXCEPT
                             !.potentialFriends =
                                 @ \o CandidateAt(G, call.name, frame.currentFriends, frame.i),
                             !.i = @ + 1]
            /\ ret' = ret
       ELSE /\ frame' = Returned
            /\ \E sorted \in SortOutcomes(frame.potentialFriends) :
                   ret' = [j \in 1..RecommendLimit(call.k, Len(sorted)) |->
                              sorted[j].first]
    /\ UNCHANGED <<nodes, edgeList, call, pushed, oob>>

NextSteps ==
    \/ \E from, to \in SearchNames : StartShortestPath(from, to)
    \/ \E from, to \in SearchNames : \E blacklist \in Blacklists :
           StartShortestPathAvoiding(from, to, blacklist)
    \/ \E name \in SearchNames : \E k \in (-MaxK)..MaxK : StartRecommendFriends(name, k)
    \/ WhilePass
    \/ NeighborPass
    \/ RebuildPass
    \/ CandidatePass

\* one pass of the loop the running call is in
LoopPass == WhilePass \/ NeighborPass \/ RebuildPass \/ CandidatePass

\* a call is started when its caller chooses to; once started, the one thread
\* of the program keeps executing its loop
SpecSteps == InitSteps /\ [][NextSteps]_vars /\ WF_vars(LoopPass)


(***************************************************************************)
(* Saving and loading back.  The graph is drawn from the graphs the        *)
(* mutators build from SaveNames, the Persons added in every order and the *)
(* friendships in every order; one of the names holds a colon, which the   *)
(* mutators and the menu's `cin >>` accept as they accept any other        *)
(* character.  Each behaviour saves once and may load what it saved.       *)
(***************************************************************************)
\* most Persons of a graph that is saved
SaveNodes == 3
\* most Friendships of a graph that is saved
SaveEdges == 2

\* the name "A:B"
NmAB == <<"A", ":", "B">>
SaveNames == {NmA, NmB, NmC, NmAB}

\* the Person lists addPerson builds from the names in S, at most n long
NodeLists(S, n) ==
    UNION {{f \in [1..m -> S] : \A i, j \in 1..m : i # j => f[i] # f[j]} :
           m \in 0..Min(n, Cardinality(S))}

SaveGraphs ==
    UNION {{Graph(ns, el) : el \in OrderedEdgeLists(ns, SaveEdges)} :
           ns \in NodeLists(SaveNames, SaveNodes)}

InitSave ==
    /\ \E g \in SaveGraphs : nodes = g.nodes /\ edgeList = g.edgeList
    /\ call = NoCall
    /\ ret = Void
    /\ pushed = <<>>
    /\ oob = FALSE
    /\ frame = NoFrame

SaveToFile(writable) ==
    LET r == saveToFile(G, writable)
    IN /\ call = NoCall
       /\ call' = [op |-> "saveToFile", file |-> r.file]
       /\ ret' = r.result
       /\ pushed' = <<>>
       /\ oob' = FALSE
       /\ frame' = frame
       /\ UNCHANGED <<nodes, edgeList>>

\* loadFromFile of the file the last call, a successful save, wrote
LoadSaved ==
    /\ call.op = "saveToFile"
    /\ ret = TRUE
    /\ LoadFromFile(call.file)

NextSave ==
    \/ \E writable \in BOOLEAN : SaveToFile(writable)
    \/ LoadSaved

SpecSave == InitSave /\ [][NextSave]_vars

(***************************************************************************)
(* Reference notions the properties are stated with.  They read the state  *)
(* directly and use none of the operators above.                           *)
(***************************************************************************)
Persons == {nodes[i] : i \in 1..Len(nodes)}

Adjacent(a, b) ==
    \E i \in 1..Len(edgeList) : {edgeList[i].firstNode, edgeList[i].secondNode} = {a, b}

Position(n) == CHOOSE i \in 1..Len(nodes) : nodes[i] = n

Names(s) == {s[i] : i \in 1..Len(s)}

NoRepeat(s) == \A i, j \in 1..Len(s) : i # j => s[i] # s[j]

IsWalk(p) == \A i \in 1..(Len(p) - 1) : Adjacent(p[i], p[i + 1])

\* the Persons within k hops of S along Friendships that avoid the names in X
RECURSIVE Within(_, _, _)
Within(S, X, k) ==
    IF k = 0 THEN S
    ELSE LET prev == Within(S, X, k - 1)
         IN prev \cup {w \in Persons \ X : \E u \in prev : Adjacent(u, w)}

Linked(from, to, X) == to \in Within({from}, X, Len(nodes))

Hops(from, to, X) ==
    CHOOSE k \in 0..Len(nodes) :
        /\ to \in Within({from}, X, k)
        /\ \A m \in 0..(k - 1) : to \notin Within({from}, X, m)

\* p is a shortest from-to path among the paths that use no name in X
ShortestAvoiding(p, from, to, X) ==
    /\ p # <<>>
    /\ p[1] = from
    /\ p[Len(p)] = to
    /\ IsWalk(p)
    /\ NoRepeat(p)
    /\ Names(p) \cap X = {}
    /\ Len(p) = Hops(from, to, X) + 1

\* a breadth-first search over names that tries the neighbours of a Person
\* in Friendship-list order, or else in Person-list order
RefNeighbors(u, byFriendshipOrder) ==
    IF byFriendshipOrder
    THEN LET touching ==
                 SelectSeq(edgeList, LAMBDA e : e.firstNode = u \/ e.secondNode = u)
         IN [i \in 1..Len(touching) |->
                IF touching[i].firstNode = u THEN touching[i].secondNode
                                             ELSE touching[i].firstNode]
    ELSE SelectSeq(nodes, LAMBDA w : Adjacent(u, w))

RECURSIVE RefTree(_, _, _, _)
RefTree(order, par, i, byFriendshipOrder) ==
    IF i > Len(order) THEN par
    ELSE LET u == order[i]
             fresh == SelectSeq(RefNeighbors(u, byFriendshipOrder),
                                LAMBDA w : \A j \in 1..Len(order) : order[j] # w)
         IN RefTree(order \o fresh,
                    par \cup {<<fresh[j], u>> : j \in 1..Len(fresh)},
                    i + 1, byFriendshipOrder)

RECURSIVE RefChain(_, _, _)
RefChain(par, from, v) ==
    IF v = from THEN <<from>>
    ELSE RefChain(par, from, (CHOOSE pr \in par : pr[1] = v)[2]) \o <<v>>

RefPath(from, to, byFriendshipOrder) ==
    IF from \notin Persons \/ to \notin Persons THEN <<>>
    ELSE LET par == RefTree(<<from>>, {}, 1, byFriendshipOrder)
         IN IF to = from \/ \E pr \in par : pr[1] = to
            THEN RefChain(par, from, to)
            ELSE <<>>

Friends(a) == {w \in Persons : Adjacent(a, w)}

Mutual(a, b) == Cardinality(Friends(a) \cap Friends(b))

Candidates(name) ==
    {c \in Persons \ {name} : ~Adjacent(name, c) /\ Mutual(name, c) > 0}

\* the names a call may pass: the names the callers use and the Persons
KnownNames == StoreNames \cup Persons

\* the Friendship e names p at one of its ends
Touches(e, p) == p \in {e.firstNode, e.secondNode}

\* the Friendship e joins the names a and b, in either order
Joins(e, a, b) == {e.firstNode, e.secondNode} = {a, b}

\* s with its entries in D dropped, the others in their order
RECURSIVE Without(_, _)
Without(s, D) ==
    IF s = <<>> THEN <<>>
    ELSE IF Head(s) \in D THEN Without(Tail(s), D)
         ELSE <<Head(s)>> \o Without(Tail(s), D)

\* how many entries of s are x
Count(s, x) == Cardinality({i \in 1..Len(s) : s[i] = x})

\* the name n stands in the line, as consecutive characters of it
InLine(n, line) ==
    \E i \in 0..(Len(line) - Len(n)) : SubSeq(line, i + 1, i + Len(n)) = n

\* the text describes the graph: every Person stands in a line of it and the
\* two ends of every Friendship stand in one line of it
Describes(lines, ns, el) ==
    /\ \A i \in 1..Len(ns) : \E l \in 1..Len(lines) : InLine(ns[i], lines[l])
    /\ \A i \in 1..Len(el) : \E l \in 1..Len(lines) :
           InLine(el[i].firstNode, lines[l]) /\ InLine(el[i].secondNode, lines[l])

(***************************************************************************)
(* Properties.                                                             *)
(***************************************************************************)

\* C1: referential integrity.  In every state the mutators and the loader
\* reach, both ends of every Friendship of the edge list are Persons of the
\* Person list.
ReferentialIntegrity ==
    \A i \in 1..Len(edgeList) :
        /\ \E j \in 1..Len(nodes) : nodes[j] = edgeList[i].firstNode
        /\ \E j \in 1..Len(nodes) : nodes[j] = edgeList[i].secondNode

\* C1 witness: removePerson removed a Person that had a Friendship, and a
\* Friendship of the others is still listed.
RemovedPersonWithFriendsLeft ==
    /\ call.op = "removePerson"
    /\ ret = TRUE
    /\ Len(nodes) = 2
    /\ Len(edgeList) = 1

\* C2: uniqueness.  No two entries of the Person list have the same name and
\* no two entries of the edge list join the same unordered pair of names.
Uniqueness ==
    /\ \A i, j \in 1..Len(nodes) : i # j => nodes[i] # nodes[j]
    /\ \A i, j \in 1..Len(edgeList) :
           i # j => {edgeList[i].firstNode, edgeList[i].secondNode}
                        # {edgeList[j].firstNode, edgeList[j].secondNode}

\* C2 witness: addFriend(a, b) was called while the Friendship (b, a) was
\* already listed.
AddFriendOfReversedPair ==
    /\ call.op = "addFriend"
    /\ call.name1 # call.name2
    /\ \E i \in 1..Len(edgeList) :
           /\ edgeList[i].firstNode = call.name2
           /\ edgeList[i].secondNode = call.name1

\* C3: shortestPath(from, to) returns a shortest path.  When both names are
\* Persons linked through Friendships the result starts with from, ends with
\* to, joins consecutive names by a Friendship, repeats no name and has the
\* fewest names possible; otherwise the result is empty.
ShortestPathIsShortest ==
    call.op = "shortestPath" =>
        IF call.from \in Persons /\ call.to \in Persons /\ Linked(call.from, call.to, {})
        THEN ShortestAvoiding(ret, call.from, call.to, {})
        ELSE ret = <<>>

\* C3 witness: shortestPath returned a path of four names.
ShortestPathOfFour ==
    /\ call.op = "shortestPath"
    /\ Len(ret) = 4

\* C4, as claimed: the path returned is the one found by a breadth-first
\* search that tries the neighbours of each Person in Person insertion order.
TieBreakByPersonOrder ==
    call.op = "shortestPath" => ret = RefPath(call.from, call.to, FALSE)

\* C4, amended: the path returned is the one found by a breadth-first search
\* that tries the neighbours of each Person in the order of the Friendship
\* list (the order in which the friendships were added).
TieBreakByFriendshipOrder ==
    call.op = "shortestPath" => ret = RefPath(call.from, call.to, TRUE)

\* C4 witness: shortestPath returned a path of three names although another
\* path of three names runs through a Person inserted before the middle one.
LaterInsertedMiddleChosen ==
    /\ call.op = "shortestPath"
    /\ Len(ret) = 3
    /\ \E w \in Persons :
           /\ Adjacent(ret[1], w)
           /\ Adjacent(w, ret[3])
           /\ Position(w) < Position(ret[2])

\* C5: no name of the exclusion list appears in the result of
\* shortestPathAvoiding, and no excluded Person is pushed on the queue, also
\* when the excluded name is from or to.
ExcludedNeverSearched ==
    call.op = "shortestPathAvoiding" =>
        \A b \in 1..Len(call.blacklist) :
            /\ \A i \in 1..Len(ret) : ret[i] # call.blacklist[b]
            /\ \A i \in 1..Len(pushed) : nodes[pushed[i] + 1] # call.blacklist[b]

\* C6: when from or to is named in the exclusion list, shortestPathAvoiding
\* returns the empty sequence.
ExcludedEndpointGivesEmpty ==
    (/\ call.op = "shortestPathAvoiding"
     /\ \E b \in 1..Len(call.blacklist) :
            call.blacklist[b] = call.from \/ call.blacklist[b] = call.to)
        => ret = <<>>

\* C7: when from and to are Persons not named in the exclusion list,
\* shortestPathAvoiding returns a shortest path among the from-to paths that
\* use no excluded Person of the graph as it is at the call, and the empty
\* sequence exactly when there is no such path.
AvoidingIsShortest ==
    (/\ call.op = "shortestPathAvoiding"
     /\ call.from \in Persons \ Names(call.blacklist)
     /\ call.to \in Persons \ Names(call.blacklist))
        => IF Linked(call.from, call.to, Names(call.blacklist))
           THEN ShortestAvoiding(ret, call.from, call.to, Names(call.blacklist))
           ELSE ret = <<>>

\* C7 witness: with A-B, B-C, C-D and A-D, shortestPathAvoiding(A, D, [C])
\* returned [A, D].
AvoidingTakesAddedEdge ==
    /\ call = [op |-> "shortestPathAvoiding", from |-> NmA, to |-> NmD,
               blacklist |-> <<NmC>>]
    /\ Adjacent(NmA, NmB) /\ Adjacent(NmB, NmC) /\ Adjacent(NmC, NmD)
    /\ Adjacent(NmA, NmD)
    /\ ret = <<NmA, NmD>>

\* C8: for a Person name and k >= 0, recommendFriends(name, k) returns
\* min(k, n) distinct names of the n candidates (the other Persons that are
\* not friends of name and share a friend with it), by mutual-friend count
\* descending, and no candidate left out has a higher count than one
\* returned; for an unknown name the result is empty.
RankingByMutualCount ==
    call.op = "recommendFriends" =>
        IF call.name \in Persons
        THEN call.k >= 0 =>
             LET C == Candidates(call.name)
                 n == Cardinality(C)
             IN /\ Len(ret) = (IF call.k < n THEN call.k ELSE n)
                /\ NoRepeat(ret)
                /\ Names(ret) \subseteq C
                /\ \A i, j \in 1..Len(ret) :
                       i < j => Mutual(call.name, ret[i]) >= Mutual(call.name, ret[j])
                /\ \A c \in C \ Names(ret) : \A i \in 1..Len(ret) :
                       Mutual(call.name, c) <= Mutual(call.name, ret[i])
        ELSE ret = <<>>

\* C8 witness: recommendFriends returned two names, the first with more
\* mutual friends than the second.
RankedTwoByCount ==
    /\ call.op = "recommendFriends"
    /\ Len(ret) = 2
    /\ Mutual(call.name, ret[1]) > Mutual(call.name, ret[2])

\* C9: for every k <= 0, recommendFriends(name, k) returns the empty
\* sequence.
NonPositiveKGivesEmpty ==
    (call.op = "recommendFriends" /\ call.k <= 0) => ret = <<>>

\* C10: in the result of recommendFriends, candidates with the same
\* mutual-friend count appear in Person insertion order, and when k cuts a
\* group of tied candidates the earlier-inserted ones are kept.
TiesInInsertionOrder ==
    (call.op = "recommendFriends" /\ call.k >= 0) =>
        /\ \A i, j \in 1..Len(ret) :
               (i < j /\ Mutual(call.name, ret[i]) = Mutual(call.name, ret[j]))
                   => Position(ret[i]) < Position(ret[j])
        /\ \A c \in Candidates(call.name) \ Names(ret) : \A i \in 1..Len(ret) :
               Mutual(call.name, c) = Mutual(call.name, ret[i])
                   => Position(ret[i]) < Position(c)

\* C11: removePerson(p) for a present p removes p and every Friendship that
\* names it.  Right after the call p is not a Person, areConnected(p, q) and
\* areConnected(q, p) are false for every name q, and p is in getFriends(q)
\* of no Person q that was a neighbour of p before the call.
RemovePersonRemovesFriendships ==
    [][(call'.op = "removePerson" /\ call'.name \in Persons) =>
         LET p == call'.name
         IN /\ p \notin Persons'
            /\ \A q \in KnownNames : ~areConnected(G', p, q) /\ ~areConnected(G', q, p)
            /\ \A q \in Persons :
                   Adjacent(p, q) => p \notin Names(getFriends(G', q))]_vars

\* C11 witness: removePerson removed a Person and left the two others with
\* no Friendship between them.
RemovedPersonOthersFriendless ==
    /\ call.op = "removePerson"
    /\ ret = TRUE
    /\ Len(nodes) = 2
    /\ edgeList = <<>>

\* C12: removePerson(name) changes the named Person and the Friendships that
\* touch it, and nothing else.  It returns true exactly when name was a
\* Person; when it returns false both lists are as before; when it returns
\* true the other Persons remain in their order and the Friendships that do
\* not touch name remain in their order.
RemovePersonFrame ==
    [][call'.op = "removePerson" =>
         LET p == call'.name
         IN /\ ret' = (p \in Persons)
            /\ ret' = FALSE => (nodes' = nodes /\ edgeList' = edgeList)
            /\ ret' = TRUE =>
                   /\ nodes' = Without(nodes, {p})
                   /\ edgeList' = Without(edgeList,
                                          {e \in Names(edgeList) : Touches(e, p)})]_vars

\* C12 witness: removePerson removed the second of three Persons; the first
\* and the third are left, with their Friendship.
RemovedMiddlePerson ==
    /\ call = [op |-> "removePerson", name |-> NmB]
    /\ ret = TRUE
    /\ nodes = <<NmA, NmC>>
    /\ Len(edgeList) = 1

\* C13: addFriend(name1, name2) leaves both lists as they are unless both
\* names are Persons, name1 # name2 and no Friendship joins them in either
\* order; in that one case the Person list is as before and exactly one
\* Friendship, joining name1 and name2, is appended to the edge list.  So no
\* reachable state lists a Friendship that joins a Person to itself.
AddFriendOnlyWhenNew ==
    /\ [](\A i \in 1..Len(edgeList) : edgeList[i].firstNode # edgeList[i].secondNode)
    /\ [][call'.op = "addFriend" =>
            LET a == call'.name1
                b == call'.name2
            IN IF a \in Persons /\ b \in Persons /\ a # b /\ ~Adjacent(a, b)
               THEN /\ nodes' = nodes
                    /\ Len(edgeList') = Len(edgeList) + 1
                    /\ SubSeq(edgeList', 1, Len(edgeList)) = edgeList
                    /\ Joins(edgeList'[Len(edgeList')], a, b)
               ELSE nodes' = nodes /\ edgeList' = edgeList]_vars

\* C13 witness: addFriend(p, p) was called for a Person p that has a friend.
AddFriendOfSelf ==
    /\ call.op = "addFriend"
    /\ call.name1 = call.name2
    /\ call.name1 \in Persons
    /\ \E q \in Persons : Adjacent(call.name1, q)

\* C14: for Persons p # q, right after addFriend(p, q) areConnected(p, q)
\* and areConnected(q, p) are true, q is in getFriends(p) and p is in
\* getFriends(q), whether or not they were friends before the call.
AddFriendConnectsBothWays ==
    [][(/\ call'.op = "addFriend"
        /\ call'.name1 \in Persons
        /\ call'.name2 \in Persons
        /\ call'.name1 # call'.name2) =>
         LET p == call'.name1
             q == call'.name2
         IN /\ areConnected(G', p, q)
            /\ areConnected(G', q, p)
            /\ q \in Names(getFriends(G', p))
            /\ p \in Names(getFriends(G', q))]_vars

\* C14 witness: addFriend(p, q) was called for two Persons that were friends
\* already: their Friendship is listed, and not last, where a new one goes.
AddFriendOfFriends ==
    /\ call.op = "addFriend"
    /\ call.name1 # call.name2
    /\ Len(edgeList) >= 2
    /\ Adjacent(call.name1, call.name2)
    /\ ~Joins(edgeList[Len(edgeList)], call.name1, call.name2)

\* C15: in every reachable state getFriends and areConnected agree and
\* getFriends lists a set.  For a Person p, q is in getFriends(p) iff
\* areConnected(p, q), which holds iff areConnected(q, p), and no name is
\* twice in getFriends(p); for a name that is not a Person getFriends is
\* empty and areConnected with that name is false.
FriendsAgreeWithConnected ==
    LET AllNames == KnownNames \cup SearchNames
    IN /\ \A p \in Persons :
              /\ NoRepeat(getFriends(G, p))
              /\ \A q \in AllNames :
                     /\ (q \in Names(getFriends(G, p))) = areConnected(G, p, q)
                     /\ areConnected(G, p, q) = areConnected(G, q, p)
       /\ \A n \in AllNames \ Persons :
              /\ getFriends(G, n) = <<>>
              /\ \A q \in AllNames : ~areConnected(G, n, q) /\ ~areConnected(G, q, n)

\* C15 witness: a Person has two friends while a name the callers use is
\* not a Person.
TwoFriendsAndAStranger ==
    /\ \E p \in Persons : Len(getFriends(G, p)) = 2
    /\ StoreNames \ Persons # {}

\* C16: addPerson is idempotent.  After addPerson(p), and so after
\* addPerson(p); addPerson(p), exactly one entry of the Person list is p.  A
\* call for a name that is a Person changes neither list; a call for a name
\* that is not appends it at the end of the Person list, leaves the edge
\* list as it is, and the new Person has no friends.
AddPersonIdempotent ==
    /\ [](call.op = "addPerson" => Count(nodes, call.name) = 1)
    /\ [][call'.op = "addPerson" =>
            LET p == call'.name
            IN IF p \in Persons
               THEN nodes' = nodes /\ edgeList' = edgeList
               ELSE /\ nodes' = nodes \o <<p>>
                    /\ edgeList' = edgeList
                    /\ getFriends(G', p) = <<>>]_vars

\* C16 witness: addPerson(p) was called for the first of three Persons, who
\* has a friend: p was a Person before the call, which appends at the end.
AddPersonOfFirstPerson ==
    /\ call.op = "addPerson"
    /\ Len(nodes) = 3
    /\ nodes[1] = call.name
    /\ \E q \in Persons : Adjacent(call.name, q)

\* C17: removeFriend(name1, name2) deletes every Friendship that joins the
\* two names in either order, and nothing else.  Afterwards
\* areConnected(name1, name2) is false, the Person list is as before and the
\* other Friendships remain in their order; when no Friendship joins the
\* names, or one of them is not a Person, both lists are as before.
RemoveFriendFrame ==
    [][call'.op = "removeFriend" =>
         LET a == call'.name1
             b == call'.name2
         IN /\ nodes' = nodes
            /\ edgeList' = Without(edgeList, {e \in Names(edgeList) : Joins(e, a, b)})
            /\ ~areConnected(G', a, b)
            /\ (~Adjacent(a, b) \/ a \notin Persons \/ b \notin Persons) =>
                   edgeList' = edgeList]_vars

\* C17 witness: removeFriend(a, b) was called for two of three Persons; two
\* Friendships are listed after it and neither joins a and b.
RemovedFriendshipBetweenOthers ==
    /\ call.op = "removeFriend"
    /\ call.name1 \in Persons
    /\ call.name2 \in Persons
    /\ call.name1 # call.name2
    /\ Len(nodes) = 3
    /\ Len(edgeList) = 2
    /\ ~Adjacent(call.name1, call.name2)

ExclusionByPresentNames ==
    call.op = "shortestPathAvoiding" =>
        LET present == SelectSeq(nodes, LAMBDA n : n \in Names(call.blacklist))
        IN /\ ret = shortestPathAvoiding(G, call.from, call.to, present).path
           /\ present = <<>> => ret = shortestPath(G, call.from, call.to).path

\* C19 witness: the exclusion list is a name that is not a Person followed
\* by the Person in the middle of the only path from from to to, and the
\* search returned empty.
UnknownBesideBlockingEntry ==
    /\ call.op = "shortestPathAvoiding"
    /\ Len(call.blacklist) = 2
    /\ call.blacklist[1] \notin Persons
    /\ call.blacklist[2] \in Persons \ {call.from, call.to}
    /\ Linked(call.from, call.to, {})
    /\ ret = <<>>

\* C20: save/load round trip.  For every reachable graph, saveToFile
\* followed by loadFromFile of the text written gives a graph with the same
\* set of Persons in which areConnected(p, q) has, for every p and q, the
\* value it had before the save.
SaveLoadRoundTrip ==
    [][(/\ call.op = "saveToFile"
        /\ ret = TRUE
        /\ call'.op = "loadFromFile"
        /\ call'.file = call.file) =>
         /\ Persons' = Persons
         /\ \A p, q \in Persons \cup Persons' :
                areConnected(G', p, q) = areConnected(G, p, q)]_vars

\* C21: every loadFromFile call is a full replace.  The Persons and
\* Friendships held before are cleared before anything of the file is added,
\* so after any loadFromFile call the graph holds no Person and no Friendship
\* that the loaded text does not describe, and the call returns a boolean.
EveryLoadReplaces ==
    [][call'.op = "loadFromFile" =>
         /\ ret' \in BOOLEAN
         /\ Describes(call'.file.lines, nodes', edgeList')]_vars

\* C21 as amended: a loadFromFile call that opens the file returns true and
\* is a full replace, the graph after it holding no Person and no Friendship
\* that the text does not describe; a call that cannot open the file returns
\* false and leaves the Person list and the edge list as they were.
OpenedLoadReplaces ==
    [][call'.op = "loadFromFile" =>
         /\ ret' = call'.file.readable
         /\ IF ret'
            THEN Describes(call'.file.lines, nodes', edgeList')
            ELSE nodes' = nodes /\ edgeList' = edgeList]_vars

\* C21 witness: loadFromFile could not open the file and returned false; the
\* three Persons and a Friendship held before are held still.
FailedLoadKeepsGraph ==
    /\ call.op = "loadFromFile"
    /\ ret = FALSE
    /\ Len(nodes) = 3
    /\ edgeList # <<>>

\* C22: both searches and the ranker run to completion.  In shortestPath
\* and shortestPathAvoiding no Person is pushed on the queue twice in one
\* call, every index pushed, queued or followed is an index of the Person
\* list and no vector is indexed with -1, the parent chain followed from
\* `to` repeats no index and ends at `from`, and the ranker's loop stays
\* within the Person list; and every call, of a search or of
\* recommendFriends, returns.
RunToCompletion ==
    /\ [](call.op \in {"shortestPath", "shortestPathAvoiding"} =>
            /\ NoRepeat(pushed)
            /\ \A i \in 1..Len(pushed) : pushed[i] \in 0..(Len(nodes) - 1)
            /\ ~oob
            /\ frame.pc \in {"while", "for"} =>
                   /\ \A i \in 1..Len(frame.st.q) :
                          frame.st.q[i] \in 0..(Len(nodes) - 1)
                   /\ frame.end_index \in 0..(Len(nodes) - 1)
            /\ frame.pc = "for" => frame.current \in 0..(Len(nodes) - 1)
            /\ frame.pc = "rebuild" =>
                   /\ NoRepeat(frame.index_path)
                   /\ \A i \in 1..Len(frame.index_path) :
                          frame.index_path[i] \in 0..(Len(nodes) - 1)
                   /\ frame.v \in (-1)..(Len(nodes) - 1)
                   /\ frame.v = -1 =>
                          /\ frame.index_path # <<>>
                          /\ nodes[frame.index_path[1] + 1] = call.to
                          /\ nodes[frame.index_path[Len(frame.index_path)] + 1]
                                 = call.from)
    /\ [](frame.pc = "candidates" => frame.i \in 1..(Len(nodes) + 1))
    /\ (call # NoCall) ~> (frame.pc = "done")

\* C22 witness: shortestPathAvoiding returned a path of three Persons after
\* pushing all four Persons of the graph on its queue.
AvoidingReturnedAfterFourPushes ==
    /\ frame.pc = "done"
    /\ call.op = "shortestPathAvoiding"
    /\ Len(pushed) = 4
    /\ Len(ret) = 3


====
